---- MODULE Spec2Model ----
(***************************************************************************)
(* A model of parallel_cp.py: a file is split into `parts` byte ranges,    *)
(* one child process copies each range into "<dest>.<i>", the parent polls *)
(* the children over one duplex pipe each, and finally appends the slices  *)
(* onto "<dest>.0" and renames it to the destination.                      *)
(***************************************************************************)
EXTENDS Integers, Sequences, FiniteSets, TLC

(***************************************************************************)
(* Bounds of the model.                                                    *)
(***************************************************************************)
\* Largest source file size of a modelled run.
MaxFileSize == 3
\* Largest positive --parts value of a modelled run.
MaxParts == 2
\* block_size of partial_copy (1048576 in the source), scaled down so that a
\* slice takes more than one iteration of the copy loop.
BlockSize == 2
\* Number of messages one direction of a Pipe() holds before send() blocks
\* (the socket buffer of the socketpair: some hundreds of messages on Linux).
PipeCap == 2
\* Largest file size and part count the partition planner is enumerated on.
MaxPlanSize == 55
MaxPlanParts == 11
\* Largest part count and slice length merge_files is enumerated on.
MaxMergeParts == 4
MaxSliceLen == 1

(***************************************************************************)
(* IEEE-754 binary64 arithmetic, as far as get_copy_offsets needs it.      *)
(* A positive double is [m |-> <<b1, ..., b53>>, e |-> e]: the 53 mantissa *)
(* bits, most significant first (b1 = 1), and the exponent of the last     *)
(* bit; its value is m * 2^e.  Zero is [m |-> <<>>, e |-> 0].              *)
(***************************************************************************)
MantissaBits == 53

FZero == [m |-> <<>>, e |-> 0]

\* 2^n for 0 <= n <= 30.
Pow2(n) ==
    <<1, 2, 4, 8, 16, 32, 64, 128, 256, 512, 1024, 2048, 4096, 8192, 16384,
      32768, 65536, 131072, 262144, 524288, 1048576, 2097152, 4194304,
      8388608, 16777216, 33554432, 67108864, 134217728, 268435456,
      536870912, 1073741824>>[n + 1]

\* Numbers longer than a machine word are kept as sequences of bits (most
\* significant first) and, for the arithmetic, as sequences of digits to the
\* base 256 (most significant first).
DigitsToBits(ds) ==
    [p \in 1..(8 * Len(ds)) |->
        (ds[((p - 1) \div 8) + 1] \div Pow2(7 - ((p - 1) % 8))) % 2]

BitsToDigits(bits) ==
    LET n      == (Len(bits) + 7) \div 8
        pad    == 8 * n - Len(bits)
        bit(p) == IF p <= pad THEN 0 ELSE bits[p - pad]
    IN  [c \in 1..n |->
            LET o == 8 * (c - 1)
            IN  128 * bit(o + 1) + 64 * bit(o + 2) + 32 * bit(o + 3)
                + 16 * bit(o + 4) + 8 * bit(o + 5) + 4 * bit(o + 6)
                + 2 * bit(o + 7) + bit(o + 8)]

\* The bits without their leading zeros.
StripZeros(bits) ==
    LET ones == {p \in 1..Len(bits) : bits[p] = 1}
    IN  IF ones = {} THEN <<>>
        ELSE LET first == CHOOSE p \in ones : \A q \in ones : p <= q
             IN  [j \in 1..(Len(bits) - first + 1) |-> bits[first + j - 1]]

\* The bits with 1 added, and whether that carried out of the top bit: the
\* last zero bit becomes one and the ones after it become zero.
IncBits(bits) ==
    LET zeros == {j \in 1..Len(bits) : bits[j] = 0}
    IN  IF zeros = {}
        THEN [b |-> [j \in 1..Len(bits) |-> 0], carry |-> TRUE]
        ELSE LET z == CHOOSE j \in zeros : \A i \in zeros : i <= j
             IN  [b |-> [j \in 1..Len(bits) |->
                            IF j < z THEN bits[j] ELSE IF j = z THEN 1 ELSE 0],
                  carry |-> FALSE]

\* Round to nearest, ties to even: `bits` are the kept mantissa bits with the
\* exponent e of their last bit, `guard` the first dropped bit, `sticky`
\* whether any later dropped bit is set.
RoundNearestEven(bits, e, guard, sticky) ==
    IF guard = 1 /\ (sticky \/ bits[Len(bits)] = 1)
    THEN LET r == IncBits(bits)
         IN  IF r.carry
             THEN [m |-> [j \in 1..Len(bits) |-> IF j = 1 THEN 1 ELSE 0],
                   e |-> e + 1]
             ELSE [m |-> r.b, e |-> e]
    ELSE [m |-> bits, e |-> e]

\* Long division: the next n digits of the expansion of r / d to the base
\* 256 (r < d), and the remainder left after them.
RECURSIVE DivDigits(_, _, _, _)
DivDigits(r, d, n, acc) ==
    IF n = 0 THEN [ds |-> acc, r |-> r]
    ELSE DivDigits((256 * r) % d, d, n - 1, Append(acc, (256 * r) \div d))

\* The number of zero bits before the first one bit of the binary expansion
\* of a / b (0 < a < b).
LeadingZeros(a, b) ==
    CHOOSE z \in 0..29 : a * Pow2(z) < b /\ a * Pow2(z + 1) >= b

\* float(a) / b for integers 0 <= a <= b, b >= 1, correctly rounded.
FDivInt(a, b) ==
    IF a = 0 THEN FZero
    ELSE IF a = b
    THEN [m |-> [j \in 1..MantissaBits |-> IF j = 1 THEN 1 ELSE 0],
          e |-> -(MantissaBits - 1)]
    ELSE LET z    == LeadingZeros(a, b)
             nd   == ((z + MantissaBits + 1) \div 8) + 1
             q    == DivDigits(a, b, nd, <<>>)
             bits == DigitsToBits(q.ds)
         IN  RoundNearestEven([j \in 1..MantissaBits |-> bits[z + j]],
                              -(z + MantissaBits),
                              bits[z + MantissaBits + 1],
                              \/ q.r # 0
                              \/ \E p \in (z + MantissaBits + 2)..(8 * nd) :
                                    bits[p] = 1)

\* The digits times f (an integer f >= 1): `n` is the last digit still to be
\* multiplied, `carry` what the digits after it carried over.
RECURSIVE MulDigits(_, _, _, _, _)
MulDigits(ds, n, f, carry, acc) ==
    IF n = 0
    THEN IF carry = 0 THEN acc
         ELSE MulDigits(ds, 0, f, carry \div 256, <<carry % 256>> \o acc)
    ELSE MulDigits(ds, n - 1, f, (ds[n] * f + carry) \div 256,
                   <<(ds[n] * f + carry) % 256>> \o acc)

\* x * float(f) for a double x >= 0 and an integer f >= 0, correctly rounded.
FMulInt(x, f) ==
    IF x.m = <<>> \/ f = 0 THEN FZero
    ELSE LET ds == BitsToDigits(x.m)
             p  == StripZeros(DigitsToBits(MulDigits(ds, Len(ds), f, 0, <<>>)))
             d  == Len(p) - MantissaBits
         IN  IF d = 0 THEN [m |-> p, e |-> x.e]
             ELSE RoundNearestEven([j \in 1..MantissaBits |-> p[j]], x.e + d,
                                   p[MantissaBits + 1],
                                   \E j \in (MantissaBits + 2)..Len(p) : p[j] = 1)

\* The integer the digits spell.
RECURSIVE DigitsToInt(_, _)
DigitsToInt(ds, n) ==
    IF n = 0 THEN 0 ELSE 256 * DigitsToInt(ds, n - 1) + ds[n]

\* int(x) for a double 0 <= x < 2^31: truncation toward zero.
FToInt(x) ==
    IF x.m = <<>> \/ Len(x.m) + x.e <= 0 THEN 0
    ELSE LET ds == BitsToDigits([j \in 1..(Len(x.m) + x.e) |-> x.m[j]])
         IN  DigitsToInt(ds, Len(ds))

(***************************************************************************)
(* get_copy_offsets                                                        *)
(***************************************************************************)
\* getpos = lambda pnum, tprocs, fsize: int(float(pnum)/tprocs * fsize)
getpos(pnum, tprocs, fsize) == FToInt(FMulInt(FDivInt(pnum, tprocs), fsize))

\* A planner that gives every slice filesize / total_procs bytes, rounded down.
get_copy_offsets_EvenLen(proc_num, total_procs, filesize) ==
    LET start_pos == proc_num * (filesize \div total_procs)
        end_pos   == start_pos + (filesize \div total_procs)
    IN  [start_pos |-> start_pos, end_pos |-> end_pos,
         read_len |-> end_pos - start_pos]

\* Returns (start/end/length) of the slice to be copied.
get_copy_offsets(proc_num, total_procs, filesize) ==
    LET start_pos == getpos(proc_num, total_procs, filesize)
        end_pos   == getpos(proc_num + 1, total_procs, filesize)
    IN  [start_pos |-> start_pos, end_pos |-> end_pos,
         read_len |-> end_pos - start_pos]

(***************************************************************************)
(* Files.  A path either names no file or a file with its bytes.           *)
(***************************************************************************)
Absent == [exists |-> FALSE, data |-> <<>>]
File(bytes) == [exists |-> TRUE, data |-> bytes]

\* The indexes a slice file "<dest>.<i>" can have in a modelled run ("<dest>.0"
\* is opened by merge_files whatever the part count).
Procs == 0..((IF MaxParts > MaxMergeParts THEN MaxParts ELSE MaxMergeParts) - 1)

\* The source file of n bytes.  The program never looks at a byte's value, so
\* the content that tells most is the one whose bytes are all different: byte
\* j of the source has value j.
SourceOf(n) == [j \in 1..n |-> j]

\* The byte a slice file left behind by an earlier run holds.
StaleByte == 0

Min(a, b) == IF a <= b THEN a ELSE b

\* in_fh.read(n) at position pos of a file with content `bytes`: up to n
\* bytes, fewer when the file ends before pos + n.
FileRead(bytes, pos, n) == SubSeq(bytes, pos + 1, Min(pos + n, Len(bytes)))

VARIABLES
    \* --- the partition planner enumerated on its own (SpecPlan)
    planSize,       \* filesize handed to get_copy_offsets
    planParts,      \* total_procs handed to get_copy_offsets
    plan,           \* the slices computed so far, for proc_num 0, 1, ...
    \* --- a run of main()
    parts,          \* args.parts
    source,         \* content of args.source_file
    source_size,    \* os.path.getsize(args.source_file), read once
    out,            \* out[i]: the file "<dest>.<i>"
    dest,           \* the file args.destination_file
    nchildren,      \* len(children) in spawn_children
    wpc,            \* wpc[i]: where child process i is
    offsets,        \* offsets[i]: (start_pos, end_pos, read_len) of child i
    in_pos,         \* in_pos[i]: position of child i's in_fh
    bytes_read,     \* bytes_read[i] of child i's partial_copy
    req,            \* req[i]: '' messages sent by the parent, not yet received
    rep,            \* rep[i]: progress messages of child i, not yet received
    bytes_copied,   \* Child.bytes_copied of children[i]
    bytes_to_copy,  \* Child.bytes_to_copy of children[i]
    cpc,            \* where the parent process is
    ci,             \* index of c in "for c in children"
    current_sum,    \* current_sum of show_progress
    shown,          \* the value last handed to pbar.start / pbar.update
    mi,             \* i of merge_files' loop
    \* --- history, read by the properties only
    snap,           \* the slice files as merge_files found them
    lost,           \* indexes whose slice file was missing when merge_files opened it
    faulted         \* whether the environment has failed in this run

planVars == <<planSize, planParts, plan>>
fileVars == <<source, out, dest>>
childVars == <<wpc, offsets, in_pos, bytes_read>>
pipeVars == <<req, rep>>
parentVars == <<nchildren, bytes_copied, bytes_to_copy, cpc, ci, current_sum,
                shown, mi>>
histVars == <<snap, lost, faulted>>
runVars == <<parts, source_size, fileVars, childVars, pipeVars, parentVars,
             histVars>>
vars == <<planVars, runVars>>

(***************************************************************************)
(* Initial states: main() has parsed its arguments and read the size of    *)
(* the source file (lines 22-26).  --parts is any integer (type=int).      *)
(***************************************************************************)
PartsChoices == {-1, 0} \cup (1..MaxParts)

NoSlice == [start_pos |-> 0, end_pos |-> 0, read_len |-> 0]

RunInit ==
    /\ parts \in PartsChoices
    /\ source_size \in 0..MaxFileSize
    /\ source = SourceOf(source_size)
    /\ out \in {[i \in Procs |-> Absent], [i \in Procs |-> File(<<StaleByte>>)]}
    /\ dest = Absent
    /\ nchildren = 0
    /\ wpc = [i \in Procs |-> "unborn"]
    /\ offsets = [i \in Procs |-> NoSlice]
    /\ in_pos = [i \in Procs |-> 0]
    /\ bytes_read = [i \in Procs |-> 0]
    /\ req = [i \in Procs |-> 0]
    /\ rep = [i \in Procs |-> <<>>]
    /\ bytes_copied = [i \in Procs |-> 0]
    /\ bytes_to_copy = [i \in Procs |-> 0]
    /\ cpc = "spawn"
    /\ ci = 0
    /\ current_sum = 0
    /\ shown = 0
    /\ mi = 0
    /\ snap = out
    /\ lost = {}
    /\ faulted = FALSE

PlanIdle == planSize = 0 /\ planParts = 0 /\ plan = <<>>

Init == PlanIdle /\ RunInit

\* proc.is_alive(): the process was started and has not ended.
Alive(i) == wpc[i] \in {"start", "loop"}

\* active_children(): the started processes that have not ended.
active_children == {i \in Procs : i < nchildren /\ Alive(i)}

(***************************************************************************)
(* spawn_children                                                          *)
(***************************************************************************)
\* One iteration of "for i in range(0,parts)": a pipe, a started process and
\* its Child object.
Spawn ==
    /\ cpc = "spawn"
    /\ nchildren < parts
    /\ wpc' = [wpc EXCEPT ![nchildren] = "start"]
    /\ bytes_to_copy' = [bytes_to_copy EXCEPT ![nchildren] =
                            get_copy_offsets(nchildren, parts, source_size).read_len]
    /\ nchildren' = nchildren + 1
    /\ UNCHANGED <<planVars, parts, source_size, fileVars, offsets, in_pos,
                   bytes_read, pipeVars, bytes_copied, cpc, ci, current_sum,
                   shown, mi, histVars>>

\* The range is exhausted (at once when parts <= 0): spawn_children returns
\* and show_progress starts the progress bar.
SpawnReturn ==
    /\ cpc = "spawn"
    /\ nchildren >= parts
    /\ cpc' = "loop"
    /\ shown' = 0
    /\ UNCHANGED <<planVars, parts, source_size, fileVars, childVars, pipeVars,
                   nchildren, bytes_copied, bytes_to_copy, ci, current_sum, mi,
                   histVars>>

(***************************************************************************)
(* partial_copy, run by child process i                                    *)
(***************************************************************************)
\* An open that keeps what an existing file holds (mode 'ab' for 'wb').
OpenTruncate_Keep(f) == IF f.exists THEN f ELSE File(<<>>)

\* open(..., 'wb'): the file is created, or emptied when it exists.
OpenTruncate(f) == File(<<>>)

\* f.write(bytes) on a file opened for writing: the bytes go to its end.  A
\* file unlinked meanwhile stays unlinked.
WriteTo(f, bytes) == IF f.exists THEN File(f.data \o bytes) ELSE f

\* A child that opens its output only when it has bytes to write.
WorkerStart_LazyOpen(i) ==
    /\ wpc[i] = "start"
    /\ offsets' = [offsets EXCEPT ![i] = get_copy_offsets(i, parts, source_size)]
    /\ out' = [out EXCEPT ![i] = IF offsets'[i].read_len = 0 THEN @
                                  ELSE File(<<>>)]
    /\ in_pos' = [in_pos EXCEPT ![i] = offsets'[i].start_pos]
    /\ bytes_read' = [bytes_read EXCEPT ![i] = 0]
    /\ wpc' = [wpc EXCEPT ![i] = "loop"]
    /\ UNCHANGED <<planVars, parts, source_size, source, dest, pipeVars,
                   parentVars, histVars>>

\* Lines 96-100: both files opened, the slice computed, in_fh positioned.
WorkerStart(i) ==
    /\ wpc[i] = "start"
    /\ out' = [out EXCEPT ![i] = OpenTruncate(out[i])]
    /\ offsets' = [offsets EXCEPT ![i] = get_copy_offsets(i, parts, source_size)]
    /\ in_pos' = [in_pos EXCEPT ![i] = offsets'[i].start_pos]
    /\ bytes_read' = [bytes_read EXCEPT ![i] = 0]
    /\ wpc' = [wpc EXCEPT ![i] = "loop"]
    /\ UNCHANGED <<planVars, parts, source_size, source, dest, pipeVars,
                   parentVars, histVars>>

\* Lines 110-116: the number of bytes asked of in_fh.read and added to
\* bytes_read.
CopyLength(bytes_remaining) ==
    IF bytes_remaining > BlockSize THEN BlockSize ELSE bytes_remaining

\* A child that answers a request with the length of its slice.
WorkerIterate_ReportPlanned(i) ==
    /\ wpc[i] = "loop"
    /\ bytes_read[i] < offsets[i].read_len
    /\ IF req[i] > 0
       THEN /\ req' = [req EXCEPT ![i] = @ - 1]
            /\ rep' = [rep EXCEPT ![i] = Append(@, offsets[i].read_len)]
       ELSE UNCHANGED <<req, rep>>
    /\ LET n    == CopyLength(offsets[i].read_len - bytes_read[i])
           data == FileRead(source, in_pos[i], n)
       IN  /\ out' = [out EXCEPT ![i] = WriteTo(@, data)]
           /\ in_pos' = [in_pos EXCEPT ![i] = @ + Len(data)]
           /\ bytes_read' = [bytes_read EXCEPT ![i] = @ + n]
    /\ UNCHANGED <<planVars, parts, source_size, source, dest, wpc, offsets,
                   parentVars, histVars>>

\* A child that waits for a request before every block (recv without poll).
WorkerIterate_WaitForRequest(i) ==
    /\ wpc[i] = "loop"
    /\ bytes_read[i] < offsets[i].read_len
    /\ req[i] > 0
    /\ req' = [req EXCEPT ![i] = @ - 1]
    /\ rep' = [rep EXCEPT ![i] = Append(@, bytes_read[i])]
    /\ LET n    == CopyLength(offsets[i].read_len - bytes_read[i])
           data == FileRead(source, in_pos[i], n)
       IN  /\ out' = [out EXCEPT ![i] = WriteTo(@, data)]
           /\ in_pos' = [in_pos EXCEPT ![i] = @ + Len(data)]
           /\ bytes_read' = [bytes_read EXCEPT ![i] = @ + n]
    /\ UNCHANGED <<planVars, parts, source_size, source, dest, wpc, offsets,
                   parentVars, histVars>>

\* A child that sends its progress after every block, asked or not.
WorkerIterate_Unsolicited(i) ==
    /\ wpc[i] = "loop"
    /\ bytes_read[i] < offsets[i].read_len
    /\ req' = [req EXCEPT ![i] = IF @ > 0 THEN @ - 1 ELSE @]
    /\ rep' = [rep EXCEPT ![i] = Append(@, bytes_read[i])]
    /\ LET n    == CopyLength(offsets[i].read_len - bytes_read[i])
           data == FileRead(source, in_pos[i], n)
       IN  /\ out' = [out EXCEPT ![i] = WriteTo(@, data)]
           /\ in_pos' = [in_pos EXCEPT ![i] = @ + Len(data)]
           /\ bytes_read' = [bytes_read EXCEPT ![i] = @ + n]
    /\ UNCHANGED <<planVars, parts, source_size, source, dest, wpc, offsets,
                   parentVars, histVars>>

\* A child that writes its blocks to "<dest>.0" whatever its proc_num.
WorkerIterate_SharedOutput(i) ==
    /\ wpc[i] = "loop"
    /\ bytes_read[i] < offsets[i].read_len
    /\ IF req[i] > 0
       THEN /\ req' = [req EXCEPT ![i] = @ - 1]
            /\ rep' = [rep EXCEPT ![i] = Append(@, bytes_read[i])]
       ELSE UNCHANGED <<req, rep>>
    /\ LET n    == CopyLength(offsets[i].read_len - bytes_read[i])
           data == FileRead(source, in_pos[i], n)
       IN  /\ out' = [out EXCEPT ![0] = WriteTo(@, data)]
           /\ in_pos' = [in_pos EXCEPT ![i] = @ + Len(data)]
           /\ bytes_read' = [bytes_read EXCEPT ![i] = @ + n]
    /\ UNCHANGED <<planVars, parts, source_size, source, dest, wpc, offsets,
                   parentVars, histVars>>

\* Lines 103-116: one iteration of the copy loop.  A pending request is
\* received and answered with bytes_read (the answer never finds its
\* direction of the pipe full: see TypeOK); then one block is read and
\* written, and bytes_read grows by the number of bytes asked for, whatever
\* in_fh.read returned.
WorkerIterate(i) ==
    /\ wpc[i] = "loop"
    /\ bytes_read[i] < offsets[i].read_len
    /\ IF req[i] > 0
       THEN /\ req' = [req EXCEPT ![i] = @ - 1]
            /\ rep' = [rep EXCEPT ![i] = Append(@, bytes_read[i])]
       ELSE UNCHANGED <<req, rep>>
    /\ LET n    == CopyLength(offsets[i].read_len - bytes_read[i])
           data == FileRead(source, in_pos[i], n)
       IN  /\ out' = [out EXCEPT ![i] = WriteTo(@, data)]
           /\ in_pos' = [in_pos EXCEPT ![i] = @ + Len(data)]
           /\ bytes_read' = [bytes_read EXCEPT ![i] = @ + n]
    /\ UNCHANGED <<planVars, parts, source_size, source, dest, wpc, offsets,
                   parentVars, histVars>>

\* Line 103 false: the files are closed and the process ends.
WorkerExit(i) ==
    /\ wpc[i] = "loop"
    /\ bytes_read[i] >= offsets[i].read_len
    /\ wpc' = [wpc EXCEPT ![i] = "exited"]
    /\ UNCHANGED <<planVars, parts, source_size, fileVars, offsets, in_pos,
                   bytes_read, pipeVars, parentVars, histVars>>

(***************************************************************************)
(* show_progress and Child.update, run by the parent                       *)
(***************************************************************************)
\* A round that goes on from the sum of the round before.
TickBegin_KeepSum ==
    /\ cpc = "loop"
    /\ active_children # {}
    /\ ci' = 0
    /\ cpc' = "update"
    /\ UNCHANGED <<planVars, parts, source_size, fileVars, childVars, pipeVars,
                   nchildren, bytes_copied, bytes_to_copy, current_sum, shown,
                   mi, histVars>>

\* Line 69 true: a round of the loop starts.
TickBegin ==
    /\ cpc = "loop"
    /\ active_children # {}
    /\ current_sum' = 0
    /\ ci' = 0
    /\ cpc' = "update"
    /\ UNCHANGED <<planVars, parts, source_size, fileVars, childVars, pipeVars,
                   nchildren, bytes_copied, bytes_to_copy, shown, mi, histVars>>

\* An update that asks every child, alive or not.
ChildUpdate_NoAliveTest ==
    /\ cpc = "update"
    /\ ci < nchildren
    /\ IF rep[ci] # <<>>
       THEN /\ bytes_copied' = [bytes_copied EXCEPT ![ci] = Head(rep[ci])]
            /\ rep' = [rep EXCEPT ![ci] = Tail(@)]
       ELSE UNCHANGED <<bytes_copied, rep>>
    /\ cpc' = "send"
    /\ UNCHANGED <<planVars, parts, source_size, fileVars, childVars, req,
                   nchildren, bytes_to_copy, ci, current_sum, shown, mi,
                   histVars>>

\* Lines 143-147 of Child.update for children[ci]: a child that is not
\* alive counts as having copied its whole slice; of a child that is alive
\* one waiting progress message, if any, is received.
ChildUpdate ==
    /\ cpc = "update"
    /\ ci < nchildren
    /\ IF ~Alive(ci)
       THEN /\ bytes_copied' = [bytes_copied EXCEPT ![ci] = bytes_to_copy[ci]]
            /\ current_sum' = current_sum + bytes_to_copy[ci]
            /\ ci' = ci + 1
            /\ UNCHANGED <<rep, cpc>>
       ELSE /\ IF rep[ci] # <<>>
               THEN /\ bytes_copied' = [bytes_copied EXCEPT ![ci] = Head(rep[ci])]
                    /\ rep' = [rep EXCEPT ![ci] = Tail(@)]
               ELSE UNCHANGED <<bytes_copied, rep>>
            /\ cpc' = "send"
            /\ UNCHANGED <<current_sum, ci>>
    /\ UNCHANGED <<planVars, parts, source_size, fileVars, childVars, req,
                   nchildren, bytes_to_copy, shown, mi, histVars>>

\* Line 148, then line 73: pipe.send('') returns once the pipe has room for
\* the message; the parent holds both ends of every pipe, so the send does
\* not fail when the child has ended.
ChildSend ==
    /\ cpc = "send"
    /\ req[ci] < PipeCap
    /\ req' = [req EXCEPT ![ci] = @ + 1]
    /\ current_sum' = current_sum + bytes_copied[ci]
    /\ ci' = ci + 1
    /\ cpc' = "update"
    /\ UNCHANGED <<planVars, parts, source_size, fileVars, childVars, rep,
                   nchildren, bytes_copied, bytes_to_copy, shown, mi, histVars>>

\* Lines 74-75: the sum goes to the progress bar and the parent sleeps.
PbarUpdate ==
    /\ cpc = "update"
    /\ ci = nchildren
    /\ shown' = current_sum
    /\ cpc' = "loop"
    /\ UNCHANGED <<planVars, parts, source_size, fileVars, childVars, pipeVars,
                   nchildren, bytes_copied, bytes_to_copy, ci, current_sum, mi,
                   histVars>>

\* A loop that ends as soon as one child has ended.
LoopExit_FirstEnded ==
    /\ cpc = "loop"
    /\ \E i \in Procs : i < nchildren /\ ~Alive(i)
    /\ cpc' = "merge_open"
    /\ UNCHANGED <<planVars, parts, source_size, fileVars, childVars, pipeVars,
                   nchildren, bytes_copied, bytes_to_copy, ci, current_sum,
                   shown, mi, histVars>>

\* Line 69 false: show_progress returns and main goes on to merge_files.
LoopExit ==
    /\ cpc = "loop"
    /\ active_children = {}
    /\ cpc' = "merge_open"
    /\ UNCHANGED <<planVars, parts, source_size, fileVars, childVars, pipeVars,
                   nchildren, bytes_copied, bytes_to_copy, ci, current_sum,
                   shown, mi, histVars>>

(***************************************************************************)
(* merge_files                                                             *)
(***************************************************************************)
\* open(..., 'ab'): the file is created when it does not exist, and kept as
\* it is when it does.
OpenAppend(f) == IF f.exists THEN f ELSE File(<<>>)

\* A merge that puts the slice in front of what the first file holds.
AppendSlice_InFront(base, slice) == slice \o base

\* out_fh.write(in_fh.read()): the slice goes to the end of the first file.
AppendSlice(base, slice) == base \o slice

\* Line 82: "<dest>.0" is opened for appending.
MergeOpen ==
    /\ cpc = "merge_open"
    /\ snap' = out
    /\ lost' = IF out[0].exists THEN {} ELSE {0}
    /\ out' = [out EXCEPT ![0] = OpenAppend(@)]
    /\ mi' = 1
    /\ cpc' = "merge"
    /\ UNCHANGED <<planVars, parts, source_size, source, dest, childVars,
                   pipeVars, nchildren, bytes_copied, bytes_to_copy, ci,
                   current_sum, shown, faulted>>

\* A merge that renames the first file into place also when a slice is
\* missing (the rename in a finally clause).
MergeAppend_RenameAnyway ==
    /\ cpc = "merge"
    /\ mi < parts
    /\ IF out[mi].exists
       THEN /\ out' = [out EXCEPT ![0] =
                          IF @.exists THEN File(AppendSlice(@.data, out[mi].data))
                          ELSE @]
            /\ cpc' = "merge_rm"
            /\ UNCHANGED <<lost, dest>>
       ELSE /\ lost' = lost \cup {mi}
            /\ cpc' = "aborted"
            /\ dest' = out[0]
            /\ out' = [out EXCEPT ![0] = Absent]
    /\ UNCHANGED <<planVars, parts, source_size, source, childVars,
                   pipeVars, nchildren, bytes_copied, bytes_to_copy, ci,
                   current_sum, shown, mi, snap, faulted>>

\* Lines 84-87 for i = mi: the slice is opened, read and appended; open()
\* raises when the file does not exist, and merge_files ends there.
MergeAppend ==
    /\ cpc = "merge"
    /\ mi < parts
    /\ IF out[mi].exists
       THEN /\ out' = [out EXCEPT ![0] =
                          IF @.exists THEN File(AppendSlice(@.data, out[mi].data))
                          ELSE @]
            /\ cpc' = "merge_rm"
            /\ UNCHANGED lost
       ELSE /\ lost' = lost \cup {mi}
            /\ cpc' = "aborted"
            /\ UNCHANGED out
    /\ UNCHANGED <<planVars, parts, source_size, source, dest, childVars,
                   pipeVars, nchildren, bytes_copied, bytes_to_copy, ci,
                   current_sum, shown, mi, snap, faulted>>

\* A merge that leaves the slice file where it is.
MergeRemove_Keep ==
    /\ cpc = "merge_rm"
    /\ mi' = mi + 1
    /\ cpc' = "merge"
    /\ UNCHANGED <<planVars, parts, source_size, fileVars, childVars,
                   pipeVars, nchildren, bytes_copied, bytes_to_copy, ci,
                   current_sum, shown, histVars>>

\* Line 88 for i = mi: os.remove raises when the file is gone by now.
MergeRemove ==
    /\ cpc = "merge_rm"
    /\ IF out[mi].exists
       THEN /\ out' = [out EXCEPT ![mi] = Absent]
            /\ mi' = mi + 1
            /\ cpc' = "merge"
       ELSE /\ cpc' = "aborted"
            /\ UNCHANGED <<out, mi>>
    /\ UNCHANGED <<planVars, parts, source_size, source, dest, childVars,
                   pipeVars, nchildren, bytes_copied, bytes_to_copy, ci,
                   current_sum, shown, histVars>>

\* Lines 91 and 33-34: the range is exhausted, "<dest>.0" is renamed to the
\* destination and main exits with status 0; os.rename raises when
\* "<dest>.0" is gone.
MergeRename ==
    /\ cpc = "merge"
    /\ mi >= parts
    /\ IF out[0].exists
       THEN /\ dest' = out[0]
            /\ out' = [out EXCEPT ![0] = Absent]
            /\ cpc' = "done"
       ELSE /\ cpc' = "aborted"
            /\ UNCHANGED <<dest, out>>
    /\ UNCHANGED <<planVars, parts, source_size, source, childVars, pipeVars,
                   nchildren, bytes_copied, bytes_to_copy, ci, current_sum,
                   shown, mi, histVars>>

(***************************************************************************)
(* The environment: what the program does not control.                     *)
(***************************************************************************)
\* At most one such fault happens in a run.
\* The source file loses its last byte to someone else while the copy runs.
TruncateSource ==
    /\ ~faulted
    /\ cpc \in {"spawn", "loop", "update", "send"}
    /\ active_children # {}
    /\ Len(source) > 0
    /\ source' = SubSeq(source, 1, Len(source) - 1)
    /\ faulted' = TRUE
    /\ UNCHANGED <<planVars, parts, source_size, out, dest, childVars,
                   pipeVars, parentVars, snap, lost>>

\* Child process i dies in its copy loop (an I/O error, a signal).
WorkerCrash(i) ==
    /\ ~faulted
    /\ wpc[i] = "loop"
    /\ wpc' = [wpc EXCEPT ![i] = "crashed"]
    /\ faulted' = TRUE
    /\ UNCHANGED <<planVars, parts, source_size, fileVars, offsets, in_pos,
                   bytes_read, pipeVars, parentVars, snap, lost>>

\* The slice file "<dest>.<i>" is removed by someone else at merge time.
RemoveSlice(i) ==
    /\ ~faulted
    /\ cpc \in {"merge_open", "merge", "merge_rm"}
    /\ out[i].exists
    /\ out' = [out EXCEPT ![i] = Absent]
    /\ faulted' = TRUE
    /\ UNCHANGED <<planVars, parts, source_size, source, dest, childVars,
                   pipeVars, parentVars, snap, lost>>

(***************************************************************************)
(* The specifications                                                      *)
(***************************************************************************)
WorkerNext ==
    \E i \in Procs :
        \/ WorkerStart(i)
        \/ WorkerIterate(i)
        \/ WorkerExit(i)

SpawnChildrenNext ==
    \/ Spawn
    \/ SpawnReturn

ShowProgressNext ==
    \/ TickBegin
    \/ ChildUpdate
    \/ ChildSend
    \/ PbarUpdate
    \/ LoopExit

MergeFilesNext ==
    \/ MergeOpen
    \/ MergeAppend
    \/ MergeRemove
    \/ MergeRename

ParentNext == SpawnChildrenNext \/ ShowProgressNext \/ MergeFilesNext

EnvNext ==
    \/ TruncateSource
    \/ \E i \in Procs : WorkerCrash(i)
    \/ \E i \in Procs : RemoveSlice(i)

\* A run in which nothing fails.
Next == ParentNext \/ WorkerNext

Spec == Init /\ [][Next]_vars

\* A run in which the environment may fail.
NextFaults == ParentNext \/ WorkerNext \/ EnvNext

SpecFaults == Init /\ [][NextFaults]_vars

(***************************************************************************)
(* The partition planner on its own: get_copy_offsets called for           *)
(* proc_num = 0, 1, ..., total_procs - 1, as spawn_children and the        *)
(* children call it.                                                       *)
(***************************************************************************)
PlanInit ==
    /\ planSize \in 0..MaxPlanSize
    /\ planParts \in 1..MaxPlanParts
    /\ plan = <<>>
    /\ parts = 0
    /\ source_size = 0
    /\ source = <<>>
    /\ out = [i \in Procs |-> Absent]
    /\ dest = Absent
    /\ nchildren = 0
    /\ wpc = [i \in Procs |-> "unborn"]
    /\ offsets = [i \in Procs |-> NoSlice]
    /\ in_pos = [i \in Procs |-> 0]
    /\ bytes_read = [i \in Procs |-> 0]
    /\ req = [i \in Procs |-> 0]
    /\ rep = [i \in Procs |-> <<>>]
    /\ bytes_copied = [i \in Procs |-> 0]
    /\ bytes_to_copy = [i \in Procs |-> 0]
    /\ cpc = "plan"
    /\ ci = 0
    /\ current_sum = 0
    /\ shown = 0
    /\ mi = 0
    /\ snap = out
    /\ lost = {}
    /\ faulted = FALSE

PlanStep ==
    /\ cpc = "plan"
    /\ Len(plan) < planParts
    /\ plan' = Append(plan, get_copy_offsets(Len(plan), planParts, planSize))
    /\ UNCHANGED <<planSize, planParts, runVars>>

SpecPlan == PlanInit /\ [][PlanStep]_vars

(***************************************************************************)
(* merge_files on its own: main has reached line 32, every child has       *)
(* ended, and slice i holds some bytes that name it.                       *)
(***************************************************************************)
\* A slice of n bytes that only slice i holds.
SliceMark(i, n) == [j \in 1..n |-> 10 * i + j]

MergeInit ==
    /\ PlanIdle
    /\ parts \in 1..MaxMergeParts
    /\ source_size = 0
    /\ source = <<>>
    /\ \E len \in [Procs -> 0..MaxSliceLen] :
          out = [i \in Procs |-> IF i < parts THEN File(SliceMark(i, len[i]))
                                 ELSE Absent]
    /\ dest = Absent
    /\ nchildren = parts
    /\ wpc = [i \in Procs |-> IF i < parts THEN "exited" ELSE "unborn"]
    /\ offsets = [i \in Procs |-> NoSlice]
    /\ in_pos = [i \in Procs |-> 0]
    /\ bytes_read = [i \in Procs |-> 0]
    /\ req = [i \in Procs |-> 0]
    /\ rep = [i \in Procs |-> <<>>]
    /\ bytes_copied = [i \in Procs |-> 0]
    /\ bytes_to_copy = [i \in Procs |-> 0]
    /\ cpc = "merge_open"
    /\ ci = 0
    /\ current_sum = 0
    /\ shown = 0
    /\ mi = 0
    /\ snap = out
    /\ lost = {}
    /\ faulted = FALSE

MergeNext ==
    \/ MergeFilesNext
    \/ \E i \in Procs : RemoveSlice(i)

SpecMerge == MergeInit /\ [][MergeNext]_vars

(***************************************************************************)
(* Properties                                                              *)
(***************************************************************************)
ParentPcs == {"plan", "spawn", "loop", "update", "send", "merge_open", "merge",
              "merge_rm", "done", "aborted"}

\* The parent is in spawn_children or show_progress: merge_files has not started.
BeforeMerge == cpc \in {"spawn", "loop", "update", "send"}

\* The shape of the state.  No direction of a pipe ever holds more than
\* PipeCap messages: the parent's send waits for room, and a child only
\* answers requests it has received, so its send never has to wait.
TypeOK ==
    /\ cpc \in ParentPcs
    /\ nchildren \in 0..Cardinality(Procs)
    /\ \A i \in Procs :
          /\ wpc[i] \in {"unborn", "start", "loop", "exited", "crashed"}
          /\ req[i] \in 0..PipeCap
          /\ Len(rep[i]) <= PipeCap
          /\ bytes_read[i] \in 0..MaxFileSize
          /\ (i >= nchildren => wpc[i] = "unborn")

\* C1: in a run in which nothing fails, with a source of fileSize > 0 bytes
\* and 1 <= parts <= fileSize, once main has finished the destination file
\* holds exactly the bytes of the source, in order.
C1_RoundTrip ==
    (cpc = "done" /\ ~faulted /\ source_size > 0 /\ parts \in 1..source_size)
        => dest = File(SourceOf(source_size))

C1_Witness ==
    /\ cpc = "done"
    /\ parts = 2
    /\ source_size = 3
    /\ snap[0].data # <<>> /\ snap[1].data # <<>>
    /\ dest = File(SourceOf(3))

RECURSIVE SumLen(_, _)
SumLen(slices, n) ==
    IF n = 0 THEN 0 ELSE SumLen(slices, n - 1) + slices[n].read_len

\* C2: the slices get_copy_offsets returns for proc_num = 0..total_procs-1 are
\* exactly total_procs slices, the first starts at 0, each ends where the
\* next starts, the last ends at filesize, no length is negative, and the
\* lengths add up to filesize.
C2_Partition ==
    /\ Len(plan) <= planParts
    /\ \A i \in 1..Len(plan) :
          /\ plan[i].read_len >= 0
          /\ plan[i].read_len = plan[i].end_pos - plan[i].start_pos
          /\ plan[i].start_pos = (IF i = 1 THEN 0 ELSE plan[i - 1].end_pos)
    /\ (cpc = "plan" /\ Len(plan) = planParts) =>
          /\ plan[planParts].end_pos = planSize
          /\ SumLen(plan, planParts) = planSize

\* 55 bytes in 11 parts, where int(float(3)/11 * 55) is 14 and not 15.
C2_Witness ==
    /\ cpc = "plan"
    /\ planSize = 55 /\ planParts = 11
    /\ Len(plan) = planParts
    /\ plan[3].end_pos = 14
    /\ plan[11].end_pos = 55

\* The bytes of the first n slice files, in the order of their indexes.
RECURSIVE ConcatSlices(_, _)
ConcatSlices(files, n) ==
    IF n <= 0 THEN <<>> ELSE ConcatSlices(files, n - 1) \o files[n - 1].data

\* C3: merge_files appends the slices in ascending order of index: when it
\* turns to slice mi the first file holds slices 0..mi-1 in that order, and
\* on completion the destination holds slices 0..parts-1 in that order.
C3_MergeOrder ==
    ~faulted =>
        /\ cpc = "merge" => out[0] = File(ConcatSlices(snap, mi))
        /\ cpc = "merge_rm" => out[0] = File(ConcatSlices(snap, mi + 1))
        /\ cpc = "done" => dest = File(ConcatSlices(snap, parts))

C3_Witness ==
    /\ cpc = "done"
    /\ ~faulted
    /\ parts = 4
    /\ dest = File(<<1, 11, 21, 31>>)

\* C4: with parts <= 0 the program stops with an error before a child is
\* spawned and before merge_files does anything, and no destination file
\* appears.
C4_FailFast ==
    parts <= 0 =>
        /\ nchildren = 0
        /\ cpc \notin {"merge", "merge_rm", "done"}
        /\ ~dest.exists

\* C5: merge_files does not complete when the file of any slice index
\* 0..parts-1, index 0 included, was missing when it opened it.
C5_MissingSliceFails ==
    (\E i \in lost : i < parts) => cpc # "done"

\* C6: when merge_files fails partway, "<dest>.0" is not renamed: no file
\* appears at the destination path.
C6_NoRenameAfterFailure ==
    cpc = "aborted" => ~dest.exists

\* A merge that failed at slice 2, after slice 1 was appended and removed.
C6_Witness ==
    /\ cpc = "aborted"
    /\ lost = {2}
    /\ snap[1].data # <<>>
    /\ out[0] = File(ConcatSlices(snap, 2))
    /\ ~out[1].exists

\* C7: a child ends successfully only when it has written exactly read_len
\* bytes to its slice file, a short read included.
C7_ExactLength ==
    \A i \in Procs :
        (wpc[i] = "exited" /\ BeforeMerge)
            => (out[i].exists /\ Len(out[i].data) = offsets[i].read_len)

\* C8: a child whose slice has length 0 creates its empty slice file, copies
\* nothing and can end at once; and a run with fileSize = 0 or with
\* parts > fileSize that finishes leaves the source's bytes (none when
\* fileSize = 0) at the destination.
C8_ZeroLength ==
    /\ \A i \in Procs :
          (wpc[i] \in {"loop", "exited"} /\ offsets[i].read_len = 0 /\ BeforeMerge)
              => (out[i] = File(<<>>) /\ bytes_read[i] = 0)
    /\ \A i \in Procs :
          (wpc[i] = "loop" /\ offsets[i].read_len = 0) => ENABLED WorkerExit(i)
    /\ (cpc = "done" /\ ~faulted /\ parts >= 1
            /\ (source_size = 0 \/ parts > source_size))
          => dest = File(SourceOf(source_size))

\* One byte in two parts: slice 0 is empty, slice 1 holds the byte.
C8_Witness ==
    /\ cpc = "done"
    /\ source_size = 1 /\ parts = 2
    /\ offsets[0].read_len = 0 /\ wpc[0] = "exited"
    /\ snap[0] = File(<<>>)
    /\ dest = File(<<1>>)

\* C9: a run in which nothing fails does not get stuck: a child that is
\* alive always has a step to take (WorkerStart, or one of WorkerIterate and
\* WorkerExit), and once every child has ended the parent, having left
\* spawn_children, can take its next step until main has exited.
C9_NeverStuck ==
    (~faulted /\ cpc \notin {"spawn", "done"} /\ active_children = {})
        => ENABLED (ShowProgressNext \/ MergeFilesNext)

\* C10: after a successful merge_files none of "<dest>.0" .. "<dest>.<parts-1>"
\* exists and the destination does; while it runs, every slice it has
\* appended is already removed.
C10_IntermediatesGone ==
    /\ cpc = "done" => (dest.exists /\ \A i \in Procs : i < parts => ~out[i].exists)
    /\ cpc = "merge" => \A i \in Procs : (1 <= i /\ i < mi) => ~out[i].exists

C10_Witness ==
    /\ cpc = "done"
    /\ parts = 4
    /\ ~faulted
    /\ \A i \in Procs : snap[i].exists /\ ~out[i].exists

\* A step of child process i.
WorkerStep(i) == WorkerStart(i) \/ WorkerIterate(i) \/ WorkerExit(i)

\* C11: child i creates and writes only "<dest>.<i>": a step of child i
\* leaves the source, the destination and every other child's slice file as
\* they are, and changes its own file only while it is alive; and every
\* child that has opened its files has its own slice file, before merge_files
\* takes the files over.
C11_OwnFileOnly ==
    /\ [](\A i \in Procs :
            (wpc[i] \in {"loop", "exited"} /\ BeforeMerge) => out[i].exists)
    /\ [][\A i \in Procs :
            WorkerStep(i) =>
                /\ source' = source
                /\ dest' = dest
                /\ \A j \in Procs \ {i} : out'[j] = out[j]
                /\ out'[i] # out[i] => (i < nchildren /\ Alive(i))]_vars

\* Two children in their copy loops, each with its own bytes in its own file.
C11_Witness ==
    /\ parts = 2 /\ source_size = 3
    /\ wpc[0] = "loop" /\ wpc[1] = "loop"
    /\ out[0] = File(<<1>>)
    /\ out[1] = File(<<2, 3>>)
    /\ source = SourceOf(3)
    /\ ~dest.exists

\* main has gone past show_progress (line 28).
AfterShowProgress == cpc \in {"merge_open", "merge", "merge_rm", "done", "aborted"}

\* C12: merge_files runs only after every child has ended: whenever main is
\* past show_progress, every process spawn_children started has ended,
\* normally or not, and every process asked for was started.
C12_MergeAfterWorkers ==
    AfterShowProgress =>
        /\ \A i \in Procs : i < nchildren => wpc[i] \in {"exited", "crashed"}
        /\ parts >= 0 => nchildren = parts

\* merge_files at work on the slices of two children that have both ended.
C12_Witness ==
    /\ cpc = "merge"
    /\ parts = 2 /\ nchildren = 2
    /\ wpc[0] = "exited" /\ wpc[1] = "exited"
    /\ snap[0].data # <<>> /\ snap[1].data # <<>>

\* The requests the parent has sent to child i that are not yet matched by a
\* progress message the parent has received: those the child has not
\* received, and those whose answer is still in the pipe.
Outstanding(i) == req[i] + Len(rep[i])

\* C13: at most one request of the parent to a child is outstanding at a
\* time, also when the child takes longer than one round of the loop to
\* answer.
C13_OneOutstanding ==
    \A i \in Procs : Outstanding(i) <= 1

\* C14: a child sends a progress message only in answer to a request: a step
\* that puts a message of child i into the pipe is an iteration of child i's
\* copy loop, it takes exactly one waiting request out of the pipe and puts
\* exactly one message in, the child's bytes_read.  So the messages a child
\* has sent never outnumber the requests it has received, and one iteration
\* sends at most one.
C14_ReportOnlyOnRequest ==
    [][\A i \in Procs :
          Len(rep'[i]) > Len(rep[i]) =>
              /\ WorkerIterate(i)
              /\ req[i] > 0
              /\ req'[i] = req[i] - 1
              /\ rep'[i] = Append(rep[i], bytes_read[i])]_vars

\* Two requests answered by two iterations: before the first block and
\* after it.
C14_Witness ==
    /\ parts = 1 /\ source_size = 3
    /\ wpc[0] = "loop"
    /\ req[0] = 0
    /\ rep[0] = <<0, 2>>

\* A step of child process i in its copy loop (lines 103-116).
WorkerLoopStep(i) == WorkerIterate(i) \/ WorkerExit(i)

\* A run in which nothing fails and every child process that can take a step
\* of its copy loop eventually takes one (the operating system schedules
\* it), while nothing is assumed of the parent: it may stop sending requests
\* and receiving progress messages at any point.
SpecWorkersFair ==
    Init /\ [][Next]_vars /\ \A i \in Procs : WF_vars(WorkerLoopStep(i))

\* C15: a child never waits for a request: in its copy loop it always has a
\* step to take, whatever its pipe holds, and a child that has entered its
\* copy loop copies its slice and ends even when the parent never sends a
\* request and never receives a progress message.
C15_WorkerNeverWaits ==
    /\ [](\A i \in Procs : wpc[i] = "loop" => ENABLED WorkerLoopStep(i))
    /\ \A i \in Procs : (wpc[i] = "loop") ~> (wpc[i] = "exited")

\* The child has copied its three bytes and ended while the parent is still
\* in spawn_children: no request was sent.
C15_Witness ==
    /\ cpc = "spawn"
    /\ parts = 1 /\ source_size = 3
    /\ wpc[0] = "exited"
    /\ req[0] = 0 /\ rep[0] = <<>>
    /\ out[0] = File(<<1, 2, 3>>)

\* C16: Child.update of a child that is not alive sets bytes_copied to
\* bytes_to_copy and neither sends nor receives anything, whether the child
\* ended normally or crashed with part of its slice written; of a child that
\* is alive it receives at most one waiting progress message, the oldest,
\* and then sends exactly one request.
C16_CompletionByExit ==
    [][/\ ChildUpdate =>
             IF ~Alive(ci)
             THEN /\ bytes_copied'[ci] = bytes_to_copy[ci]
                  /\ pipeVars' = pipeVars
                  /\ cpc' = "update" /\ ci' = ci + 1
             ELSE /\ req' = req
                  /\ IF rep[ci] = <<>>
                     THEN rep' = rep /\ bytes_copied' = bytes_copied
                     ELSE /\ rep'[ci] = Tail(rep[ci])
                          /\ bytes_copied'[ci] = Head(rep[ci])
                  /\ cpc' = "send" /\ ci' = ci
       /\ ChildSend =>
             /\ req'[ci] = req[ci] + 1
             /\ rep' = rep /\ bytes_copied' = bytes_copied
             /\ cpc' = "update" /\ ci' = ci + 1]_vars

\* A child that crashed with two of its three bytes written counts as
\* having copied all three.
C16_Witness ==
    /\ parts = 1 /\ source_size = 3
    /\ wpc[0] = "crashed"
    /\ out[0] = File(<<1, 2>>)
    /\ bytes_to_copy[0] = 3
    /\ bytes_copied[0] = 3

\* C17: any two slices of one plan have lengths that differ by at most 1.
C17_LengthsWithinOne ==
    \A i, j \in 1..Len(plan) : plan[i].read_len - plan[j].read_len <= 1

\* C18: the bytes_copied of every Child lies between 0 and its bytes_to_copy,
\* and every sum show_progress computes and hands to the progress bar lies
\* between 0 and the size of the source, the bar's maxval.
C18_ProgressInRange ==
    /\ \A i \in Procs : 0 <= bytes_copied[i] /\ bytes_copied[i] <= bytes_to_copy[i]
    /\ 0 <= current_sum /\ current_sum <= source_size
    /\ 0 <= shown /\ shown <= source_size

\* Two of three bytes reported, received and shown while the child is still
\* copying.
C18_Witness ==
    /\ parts = 1 /\ source_size = 3
    /\ Alive(0)
    /\ bytes_to_copy[0] = 3
    /\ bytes_copied[0] = 2
    /\ shown = 2

\* The bytes child i has written to its slice file so far: none before it
\* has opened (and emptied) the file.
Written(i) == IF wpc[i] \in {"loop", "exited", "crashed"} THEN Len(out[i].data) ELSE 0

\* C19: in a run in which nothing fails, while show_progress runs the
\* bytes_copied of every Child is at most the number of bytes that child has
\* written to its slice file so far, however late a progress message is
\* received.
C19_NeverOverstated ==
    BeforeMerge => \A i \in Procs : bytes_copied[i] <= Written(i)

\* The parent has received "2" while the child, still alive, has written
\* all three bytes.
C19_Witness ==
    /\ parts = 1 /\ source_size = 3
    /\ wpc[0] = "loop"
    /\ out[0] = File(<<1, 2, 3>>)
    /\ bytes_copied[0] = 2

\* C20: in a run in which nothing fails, with fileSize > 0 and parts >= 1,
\* when show_progress has left its loop the bytes_copied of every Child
\* equals its bytes_to_copy, and the last sum handed to the progress bar
\* equals the size of the source.
C20_FullAtLoopExit ==
    (cpc = "merge_open" /\ ~faulted /\ source_size > 0 /\ parts >= 1) =>
        /\ \A i \in Procs : i < nchildren => bytes_copied[i] = bytes_to_copy[i]
        /\ shown = source_size

====
